---- MODULE Spec2Model ----
(***************************************************************************)
(* Model of src/pathfinder.py (PathfinderApp): the search session          *)
(* (start_algorithm / step / reset), the re-planning logic inside step(),  *)
(* and the event loop run() that drives them.                              *)
(*                                                                         *)
(* pathfinder_part1 (Grid, ALGORITHMS, ROWS, COLS, cell values) is         *)
(* imported by the program but is not part of src/; its pieces are         *)
(* modelled from spec.md: the Grid mutators (section 4.1) and the          *)
(* Strategy contract (sections 3 and 4.2).  A Strategy is a Python         *)
(* generator: next() either yields a Step Snapshot or raises               *)
(* StopIteration.                                                          *)
(***************************************************************************)
EXTENDS Integers, Sequences, FiniteSets, TLC

\* ------------------------------------------------------------------ bounds
\* ROWS and COLS of pathfinder_part1: the model takes a one-row grid, Start at
\* one end and Target at the other.
Rows == 1
Cols == 4
\* Cap on the number of Strategy instances constructed in one behaviour
\* (start_algorithm and every re-plan construct one).
MaxInstances == 3

\* ------------------------------------------------------------- cell values
EMPTY  == "EMPTY"
WALL   == "WALL"
START  == "START"
TARGET == "TARGET"

\* ALGORITHMS: the name -> generator-function registry of pathfinder_part1.
ALGORITHMS == {"BFS", "DFS"}

Cells == (0 .. Rows - 1) \X (0 .. Cols - 1)
start  == <<0, 0>>
target == <<Rows - 1, Cols - 1>>
FreeCells == Cells \ {start, target}

Abs(x) == IF x < 0 THEN -x ELSE x
Adjacent(a, b) == Abs(a[1] - b[1]) + Abs(a[2] - b[2]) = 1
Range(s) == {s[i] : i \in 1 .. Len(s)}

\* ------------------------------------------------------------------- Grid
\* Grid(ROWS, COLS) / Grid.reset(): a fresh layout whose walls are `walls`
\* (the random layout is a nondeterministic choice of the wall set).
GridLayout(walls) ==
  [c \in Cells |-> IF c = start THEN START
                   ELSE IF c = target THEN TARGET
                   ELSE IF c \in walls THEN WALL ELSE EMPTY]

\* Grid.toggle_wall(r, c): flips Empty <-> Wall; Start and Target are never
\* toggled.
toggle_wall(g, c) ==
  IF c \notin Cells \/ c = start \/ c = target THEN g
  ELSE [g EXCEPT ![c] = IF g[c] = WALL THEN EMPTY ELSE WALL]

\* ------------------------------------------------------------- Strategy
\* The generator object held in self.generator.  inst is the identity of the
\* instance (the n-th one constructed); status is "active" (suspended, can be
\* resumed), "terminal" (has yielded a snapshot with found or failed) or
\* "closed" (has raised StopIteration); explored is the set of coordinates the
\* instance has expanded so far.
NoGenerator ==
  [inst |-> 0, algo |-> "", status |-> "none", explored |-> {}]

\* algo_fn(self.grid): a fresh generator of the named algorithm.
NewGenerator(name, n) ==
  [inst |-> n, algo |-> name, status |-> "active", explored |-> {}]

Msg(kind, name, n) == [kind |-> kind, name |-> name, n |-> n]

NoSnapshot ==
  [frontier |-> {}, explored |-> {}, path |-> <<>>, found |-> FALSE,
   failed |-> FALSE, message |-> Msg("", "", 0)]

\* Simple paths from Start to cell c that stay inside the cell set S.
RECURSIVE PathsFrom(_, _, _)
PathsFrom(p, c, S) ==
  LET last == p[Len(p)]
  IN  IF last = c THEN {p}
      ELSE UNION {PathsFrom(Append(p, n), c, S) :
                    n \in {x \in S \ Range(p) : Adjacent(last, x)}}

PathsTo(c, S) == IF start \in S /\ c \in S THEN PathsFrom(<<start>>, c, S) ELSE {}

Frontier(ex, g) ==
  {c \in Cells \ ex : g[c] # WALL /\ \E e \in ex : Adjacent(e, c)}

\* The outcomes of next(generator) on the live grid g.  Each outcome is
\*   raised : TRUE for StopIteration
\*   state  : the yielded snapshot
\*   gen    : the generator afterwards
\*   grid   : the live grid afterwards (a Strategy may introduce a dynamic
\*            obstacle while it runs).
Raise(gen, g) ==
  [raised |-> TRUE, state |-> NoSnapshot,
   gen |-> [gen EXCEPT !.status = "closed"], grid |-> g]

Yield(gen, g, ex, path, kind) ==
  [raised |-> FALSE,
   state |-> [frontier |-> IF kind = "searching" THEN Frontier(ex, g) ELSE {},
              explored |-> ex, path |-> path,
              found |-> (kind = "found"), failed |-> (kind = "failed"),
              message |-> Msg(kind, gen.algo, Cardinality(ex))],
   gen |-> [gen EXCEPT !.explored = ex,
                       !.status = IF kind = "searching" THEN "active"
                                  ELSE "terminal"],
   grid |-> g]

Expandable(gen, g) ==
  {c \in Cells \ gen.explored :
     /\ g[c] # WALL
     /\ IF gen.explored = {} THEN c = start
        ELSE \E e \in gen.explored : Adjacent(e, c)}

\* The grids a Strategy can leave behind: dynamic obstacles appear on any
\* set of currently empty cells.
Obstructed(g) ==
  {[c \in Cells |-> IF c \in W THEN WALL ELSE g[c]] :
     W \in SUBSET {x \in FreeCells : g[x] = EMPTY}}

Passable(p, g) == \A i \in 1 .. Len(p) : g[p[i]] # WALL

\* One unit of work: the expansion of one coordinate, reported with or
\* without the tentative path to it; the expansion of Target ends the search
\* with a path that is clear on the grid as it then is.
Expansions(gen, g, g2) ==
  UNION {
    LET ex == gen.explored \cup {c} IN
      IF c = target
      THEN {Yield(gen, g2, ex, p, "found") :
              p \in {q \in PathsTo(c, ex) : Passable(q, g2)}}
      ELSE {Yield(gen, g2, ex, p, "searching") :
              p \in {<<>>} \cup PathsTo(c, ex)}
    : c \in Expandable(gen, g)}

\* Terminal failure, with an empty or a best-effort path.
Failures(gen, g2) ==
  {Yield(gen, g2, gen.explored, p, "failed") :
     p \in {<<>>} \cup UNION {PathsTo(c, gen.explored) : c \in gen.explored}}

NextOutcomes(gen, g) ==
  IF gen.status # "active" THEN {Raise(gen, g)}
  ELSE {Raise(gen, g)}
       \cup UNION {Expansions(gen, g, g2) \cup Failures(gen, g2) : g2 \in Obstructed(g)}

\* ------------------------------------------------------------------ state
VARIABLES
  grid,           \* self.grid.grid
  generator,      \* self.generator
  frontier,       \* self.frontier
  explored,       \* self.explored
  path,           \* self.path
  found,          \* self.found
  failed,         \* self.failed
  running,        \* self.running
  message,        \* self.message
  algo_name,      \* self.algo_name
  dynamic_walls,  \* self.dynamic_walls
  replan_count,   \* self.replan_count
  active,         \* names of the algorithm buttons whose .active is True
  step_mode,      \* self.step_mode
  dragging_wall,  \* local of run()
  speed,          \* self.speed
  created,        \* number of Strategy instances constructed so far
  op              \* the last event handled: what it called and what next() gave

vars == <<grid, generator, frontier, explored, path, found, failed, running,
          message, algo_name, dynamic_walls, replan_count, active, step_mode,
          dragging_wall, speed, created, op>>

\* The object `self`, as a record of its fields.
Self ==
  [grid |-> grid, generator |-> generator, frontier |-> frontier,
   explored |-> explored, path |-> path, found |-> found, failed |-> failed,
   running |-> running, message |-> message, algo_name |-> algo_name,
   dynamic_walls |-> dynamic_walls, replan_count |-> replan_count,
   active |-> active, step_mode |-> step_mode, speed |-> speed,
   created |-> created]

Commit(s) ==
  /\ grid' = s.grid
  /\ generator' = s.generator
  /\ frontier' = s.frontier
  /\ explored' = s.explored
  /\ path' = s.path
  /\ found' = s.found
  /\ failed' = s.failed
  /\ running' = s.running
  /\ message' = s.message
  /\ algo_name' = s.algo_name
  /\ dynamic_walls' = s.dynamic_walls
  /\ replan_count' = s.replan_count
  /\ active' = s.active
  /\ step_mode' = s.step_mode
  /\ speed' = s.speed
  /\ created' = s.created

\* --------------------------------------------------------- PathfinderApp
\* start_algorithm without the reset of the re-plan counter.
start_keeps_replan_count(s, name) ==
  [s EXCEPT !.frontier = {},
            !.explored = {},
            !.path = <<>>,
            !.found = FALSE,
            !.failed = FALSE,
            !.dynamic_walls = {},
            !.algo_name = name,
            !.message = Msg("running", name, 0),
            !.active = {name},
            !.generator = NewGenerator(name, s.created + 1),
            !.created = s.created + 1,
            !.running = TRUE]

\* PathfinderApp.start_algorithm(name)
start_algorithm(s, name) ==
  [s EXCEPT !.frontier = {},
            !.explored = {},
            !.path = <<>>,
            !.found = FALSE,
            !.failed = FALSE,
            !.dynamic_walls = {},
            !.replan_count = 0,
            !.algo_name = name,
            !.message = Msg("running", name, 0),
            !.active = {name},
            !.generator = NewGenerator(name, s.created + 1),
            !.created = s.created + 1,
            !.running = TRUE]

\* The positions of self.path that are a Wall on the live grid.
Blocked(s) == {i \in 1 .. Len(s.path) : s.grid[s.path[i]] = WALL}

\* The re-planning block without the restart of the algorithm.
replan_keeps_generator(s) ==
  IF s.path # <<>> /\ ~s.found /\ Blocked(s) # {}
  THEN [s EXCEPT !.replan_count = s.replan_count + 1,
                 !.message = Msg("blocked", "", s.replan_count + 1)]
  ELSE s

\* The re-planning block looking at the last coordinate of the path only.
replan_last_only(s) ==
  IF s.path # <<>> /\ ~s.found /\ Len(s.path) \in Blocked(s)
  THEN [s EXCEPT !.replan_count = s.replan_count + 1,
                 !.message = Msg("blocked", "", s.replan_count + 1),
                 !.generator = NewGenerator(s.algo_name, s.created + 1),
                 !.created = s.created + 1]
  ELSE s

\* The re-planning block without the break: one restart per blocked
\* coordinate.
replan_no_break(s) ==
  IF s.path # <<>> /\ ~s.found /\ Blocked(s) # {}
  THEN [s EXCEPT !.replan_count = s.replan_count + Cardinality(Blocked(s)),
                 !.message = Msg("blocked", "", s.replan_count + Cardinality(Blocked(s))),
                 !.generator = NewGenerator(s.algo_name, s.created + 1),
                 !.created = s.created + 1]
  ELSE s

\* The re-planning block of step(): the first blocked coordinate restarts
\* the same algorithm and ends the scan.
replan(s) ==
  IF s.path # <<>> /\ ~s.found /\ Blocked(s) # {}
  THEN [s EXCEPT !.replan_count = s.replan_count + 1,
                 !.message = Msg("blocked", "", s.replan_count + 1),
                 !.generator = NewGenerator(s.algo_name, s.created + 1),
                 !.created = s.created + 1]
  ELSE s

\* The end of step() stopping on found only.
finish_found_only(s) ==
  IF s.found
  THEN [s EXCEPT !.running = FALSE, !.active = {}]
  ELSE s

\* The end of step() stopping on failed only.
finish_failed_only(s) ==
  IF s.failed
  THEN [s EXCEPT !.running = FALSE, !.active = {}]
  ELSE s

\* The end of step() deactivating the buttons but leaving self.running set.
finish_keeps_running(s) ==
  IF s.found \/ s.failed
  THEN [s EXCEPT !.active = {}]
  ELSE s

\* The end of step(): a found or failed search stops.
finish(s) ==
  IF s.found \/ s.failed
  THEN [s EXCEPT !.running = FALSE, !.active = {}]
  ELSE s

\* What step() does with a yielded snapshot.
Update(s, out) ==
  finish(replan(
    [s EXCEPT !.generator = out.gen,
              !.grid = out.grid,
              !.frontier = out.state.frontier,
              !.explored = out.state.explored,
              !.path = out.state.path,
              !.found = out.state.found,
              !.failed = out.state.failed,
              !.message = out.state.message]))

\* step() with `and` for `or` in its guard.
step_guard_and(s, out) ==
  IF s.generator = NoGenerator /\ ~s.running THEN s
  ELSE IF out.raised
  THEN [s EXCEPT !.generator = out.gen, !.grid = out.grid, !.running = FALSE]
  ELSE Update(s, out)

\* step() whose StopIteration handler only returns.
step_exhausted_keeps_running(s, out) ==
  IF s.generator = NoGenerator \/ ~s.running THEN s
  ELSE IF out.raised
  THEN [s EXCEPT !.generator = out.gen, !.grid = out.grid]
  ELSE Update(s, out)

\* step() without the copy of state["explored"].
step_drops_explored(s, out) ==
  IF s.generator = NoGenerator \/ ~s.running THEN s
  ELSE IF out.raised
  THEN [s EXCEPT !.generator = out.gen, !.grid = out.grid, !.running = FALSE]
  ELSE finish(replan(
         [s EXCEPT !.generator = out.gen,
                   !.grid = out.grid,
                   !.frontier = out.state.frontier,
                   !.path = out.state.path,
                   !.found = out.state.found,
                   !.failed = out.state.failed,
                   !.message = out.state.message]))

\* PathfinderApp.step(), where out is what next(self.generator) does.
step(s, out) ==
  IF s.generator = NoGenerator \/ ~s.running THEN s
  ELSE IF out.raised
  THEN [s EXCEPT !.generator = out.gen, !.grid = out.grid, !.running = FALSE]
  ELSE Update(s, out)

\* reset() without the clearing of self.running.
reset_keeps_running(s, walls) ==
  [s EXCEPT !.grid = GridLayout(walls),
            !.generator = NoGenerator,
            !.frontier = {},
            !.explored = {},
            !.path = <<>>,
            !.found = FALSE,
            !.failed = FALSE,
            !.message = Msg("reset", "", 0),
            !.algo_name = "",
            !.dynamic_walls = {},
            !.replan_count = 0,
            !.active = {}]

\* reset() without the clearing of self.generator.
reset_keeps_generator(s, walls) ==
  [s EXCEPT !.grid = GridLayout(walls),
            !.frontier = {},
            !.explored = {},
            !.path = <<>>,
            !.found = FALSE,
            !.failed = FALSE,
            !.running = FALSE,
            !.message = Msg("reset", "", 0),
            !.algo_name = "",
            !.dynamic_walls = {},
            !.replan_count = 0,
            !.active = {}]

\* PathfinderApp.reset(), where walls is the layout Grid.reset() draws.
reset(s, walls) ==
  [s EXCEPT !.grid = GridLayout(walls),
            !.generator = NoGenerator,
            !.frontier = {},
            !.explored = {},
            !.path = <<>>,
            !.found = FALSE,
            !.failed = FALSE,
            !.running = FALSE,
            !.message = Msg("reset", "", 0),
            !.algo_name = "",
            !.dynamic_walls = {},
            !.replan_count = 0,
            !.active = {}]

\* What an event that does not resume the generator records as `out`.
NoOut ==
  [raised |-> TRUE, state |-> NoSnapshot, gen |-> NoGenerator,
   grid |-> GridLayout({})]

\* event.pos of an event whose handler does not read it.
NoPos == <<-1, -1>>

\* self.speed at construction, its step and its limits.
InitialSpeed == 8
SpeedStep == 2
MaxSpeed == 60
MinSpeed == 1

\* ------------------------------------------------------------------- Init
\* PathfinderApp.__init__
Init ==
  /\ \E walls \in SUBSET FreeCells : grid = GridLayout(walls)
  /\ generator = NoGenerator
  /\ frontier = {}
  /\ explored = {}
  /\ path = <<>>
  /\ found = FALSE
  /\ failed = FALSE
  /\ running = FALSE
  /\ message = Msg("select", "", 0)
  /\ algo_name = ""
  /\ dynamic_walls = {}
  /\ replan_count = 0
  /\ active = {}
  /\ step_mode = FALSE
  /\ dragging_wall = FALSE
  /\ speed = InitialSpeed
  /\ created = 0
  /\ op = [event |-> "init", calls |-> <<>>, name |-> "", before |-> <<>>,
           pos |-> NoPos, out |-> NoOut]

\* The event just handled: the methods it called, the algorithm name it
\* passed, self.path as it was when step() was entered, and what next() did
\* if the generator was resumed.  pos is event.pos where a handler reads it.
Handled(event, calls, name, out) ==
  op' = [event |-> event, calls |-> calls, name |-> name,
         before |-> IF calls = <<"step">> THEN path ELSE <<>>,
         pos |-> NoPos, out |-> out]

\* A handler that calls self.step(): next() is resumed only past the guard.
DoStep(event) ==
  \E out \in NextOutcomes(generator, grid) :
    LET t == step(Self, out)
        resumed == generator # NoGenerator /\ running
    IN  /\ t.created <= MaxInstances
        /\ Commit(t)
        /\ Handled(event, <<"step">>, "", IF resumed THEN out ELSE NoOut)

\* ---------------------------------------------------- run(): the event loop
\* KEYDOWN K_r
KeyR ==
  /\ \E walls \in SUBSET FreeCells : Commit(reset(Self, walls))
  /\ Handled("key_r", <<"reset">>, "", NoOut)
  /\ UNCHANGED dragging_wall

\* KEYDOWN K_SPACE without the test of self.step_mode.
KeySpace_ungated ==
  /\ DoStep("key_space")
  /\ UNCHANGED dragging_wall

\* KEYDOWN K_SPACE
KeySpace ==
  /\ IF step_mode
     THEN DoStep("key_space")
     ELSE Commit(Self) /\ Handled("key_space", <<>>, "", NoOut)
  /\ UNCHANGED dragging_wall

\* The left click on grid cell c without the test of self.running.
ClickCell_ungated(c) ==
  /\ Commit([Self EXCEPT !.grid = toggle_wall(grid, c)])
  /\ Handled("click_cell", <<>>, "", NoOut)
  /\ UNCHANGED dragging_wall

\* MOUSEBUTTONDOWN, button 1, on grid cell c
ClickCell(c) ==
  /\ Commit(IF ~running THEN [Self EXCEPT !.grid = toggle_wall(grid, c)] ELSE Self)
  /\ Handled("click_cell", <<>>, "", NoOut)
  /\ UNCHANGED dragging_wall

\* MOUSEBUTTONDOWN, button 3
RightDown ==
  /\ dragging_wall' = TRUE
  /\ Commit(Self)
  /\ Handled("right_down", <<>>, "", NoOut)

\* MOUSEBUTTONUP, button 3
RightUp ==
  /\ dragging_wall' = FALSE
  /\ Commit(Self)
  /\ Handled("right_up", <<>>, "", NoOut)

\* The click on an algorithm button calling start_algorithm before reset.
ClickAlgo_start_then_reset(name) ==
  /\ created < MaxInstances
  /\ \E walls \in SUBSET FreeCells :
       Commit(reset(start_algorithm(Self, name), walls))
  /\ Handled("click_algo", <<"start_algorithm", "reset">>, name, NoOut)
  /\ UNCHANGED dragging_wall

\* MOUSEBUTTONDOWN, button 1, on the button of algorithm `name`
ClickAlgo(name) ==
  /\ created < MaxInstances
  /\ \E walls \in SUBSET FreeCells :
       Commit(start_algorithm(reset(Self, walls), name))
  /\ Handled("click_algo", <<"reset", "start_algorithm">>, name, NoOut)
  /\ UNCHANGED dragging_wall

\* MOUSEBUTTONDOWN, button 1, on "Reset Grid"
ClickReset ==
  /\ \E walls \in SUBSET FreeCells : Commit(reset(Self, walls))
  /\ Handled("click_reset", <<"reset">>, "", NoOut)
  /\ UNCHANGED dragging_wall

\* MOUSEBUTTONDOWN, button 1, on "Step Mode"
ClickStepMode ==
  /\ Commit([Self EXCEPT !.step_mode = ~step_mode])
  /\ Handled("click_step_mode", <<>>, "", NoOut)
  /\ UNCHANGED dragging_wall

\* MOUSEBUTTONDOWN, button 1, on "Next Step"
ClickNext ==
  /\ IF step_mode
     THEN DoStep("click_next")
     ELSE Commit(Self) /\ Handled("click_next", <<>>, "", NoOut)
  /\ UNCHANGED dragging_wall

\* MOUSEMOTION over grid cell c
MouseMotion(c) ==
  /\ Commit(IF dragging_wall /\ ~running /\ c # start /\ c # target
            THEN [Self EXCEPT !.grid = [grid EXCEPT ![c] = WALL]]
            ELSE Self)
  /\ Handled("mouse_motion", <<>>, "", NoOut)
  /\ UNCHANGED dragging_wall

\* the auto-step at the end of each frame
AutoStep ==
  /\ running /\ ~step_mode
  /\ DoStep("auto_step")
  /\ UNCHANGED dragging_wall

Next ==
  \/ KeyR
  \/ KeySpace
  \/ \E c \in Cells : ClickCell(c)
  \/ RightDown
  \/ RightUp
  \/ \E name \in ALGORITHMS : ClickAlgo(name)
  \/ ClickReset
  \/ ClickStepMode
  \/ ClickNext
  \/ \E c \in Cells : MouseMotion(c)
  \/ AutoStep

Spec == Init /\ [][Next]_vars

\* ------------------------------------------- the session driven directly
\* The three methods and the Grid mutator called in any order by a caller
\* other than run() (no gating by running or by step mode).
CallStart(name) ==
  /\ created < MaxInstances
  /\ Commit(start_algorithm(Self, name))
  /\ Handled("call", <<"start_algorithm">>, name, NoOut)
  /\ UNCHANGED dragging_wall

CallStep ==
  /\ DoStep("call")
  /\ UNCHANGED dragging_wall

CallReset ==
  /\ \E walls \in SUBSET FreeCells : Commit(reset(Self, walls))
  /\ Handled("call", <<"reset">>, "", NoOut)
  /\ UNCHANGED dragging_wall

CallToggleWall(c) ==
  /\ Commit([Self EXCEPT !.grid = toggle_wall(grid, c)])
  /\ Handled("call", <<"toggle_wall">>, "", NoOut)
  /\ UNCHANGED dragging_wall

NextSession ==
  \/ \E name \in ALGORITHMS : CallStart(name)
  \/ CallStep
  \/ CallReset
  \/ \E c \in Cells : CallToggleWall(c)

SpecSession == Init /\ [][NextSession]_vars

\* ------------------------------------------------- the pointer on the grid
\* Layout constants of the window.
CELL_SIZE == 46
MARGIN_TOP == 60
MARGIN_LEFT == 10

\* pixel_to_cell returns None.
NoCell == <<-1, -1>>

\* pixel_to_cell with the two margins exchanged.
pixel_to_cell_margins_swapped(px, py) ==
  LET col == (px - MARGIN_TOP) \div CELL_SIZE
      row == (py - MARGIN_LEFT) \div CELL_SIZE
  IN  IF 0 <= row /\ row < Rows /\ 0 <= col /\ col < Cols
      THEN <<row, col>> ELSE NoCell

\* PathfinderApp.pixel_to_cell(px, py): floor division, as Python's //.
pixel_to_cell(px, py) ==
  LET col == (px - MARGIN_LEFT) \div CELL_SIZE
      row == (py - MARGIN_TOP) \div CELL_SIZE
  IN  IF 0 <= row /\ row < Rows /\ 0 <= col /\ col < Cols
      THEN <<row, col>> ELSE NoCell

\* PathfinderApp.cell_rect(row, col) contains the pixel p.
InRect(c, p) ==
  /\ MARGIN_LEFT + c[2] * CELL_SIZE <= p[1]
  /\ p[1] < MARGIN_LEFT + (c[2] + 1) * CELL_SIZE
  /\ MARGIN_TOP + c[1] * CELL_SIZE <= p[2]
  /\ p[2] < MARGIN_TOP + (c[1] + 1) * CELL_SIZE

\* Pointer positions tried: the window's left and top edge, and the first and
\* last pixel of every column and row of cells, one column and row past the
\* grid included.
PixelXs == {0} \cup {MARGIN_LEFT + k * CELL_SIZE + d : k \in 0 .. Cols, d \in {-1, 0}}
PixelYs == {0} \cup {MARGIN_TOP + k * CELL_SIZE + d : k \in 0 .. Rows, d \in {-1, 0}}

\* An event whose handler reads event.pos.
HandledAt(event, pos) ==
  op' = [event |-> event, calls |-> <<>>, name |-> "", before |-> <<>>,
         pos |-> pos, out |-> NoOut]

\* MOUSEMOTION at pixel (px, py)
MotionAt(px, py) ==
  LET cell == pixel_to_cell(px, py)
  IN  /\ Commit(IF /\ dragging_wall
                   /\ cell # NoCell
                   /\ ~running /\ cell # start /\ cell # target
                THEN [Self EXCEPT !.grid = [grid EXCEPT ![cell] = WALL]]
                ELSE Self)
      /\ HandledAt("mouse_motion", <<px, py>>)
      /\ UNCHANGED dragging_wall

\* MOUSEBUTTONDOWN, button 1, at pixel (px, py) of the grid area
LeftClickAt(px, py) ==
  LET cell == pixel_to_cell(px, py)
  IN  /\ Commit(IF cell # NoCell /\ ~running
                THEN [Self EXCEPT !.grid = toggle_wall(grid, cell)]
                ELSE Self)
      /\ HandledAt("click_cell", <<px, py>>)
      /\ UNCHANGED dragging_wall

\* run() fed with pointer events at pixel positions, between selections of an
\* algorithm and resets.
NextPointer ==
  \/ RightDown
  \/ RightUp
  \/ \E px \in PixelXs, py \in PixelYs : MotionAt(px, py)
  \/ \E px \in PixelXs, py \in PixelYs : LeftClickAt(px, py)
  \/ \E name \in ALGORITHMS : ClickAlgo(name)
  \/ ClickReset

SpecPointer == Init /\ [][NextPointer]_vars

\* ------------------------------------------------- a run driven to its end
\* The auto-step of run() with a Strategy that yields a snapshot at every
\* resumption until a terminal one (it does not raise StopIteration before).
RunAdvance ==
  /\ running /\ ~step_mode
  /\ \E out \in {o \in NextOutcomes(generator, grid) : ~o.raised} :
       /\ Commit(step(Self, out))
       /\ Handled("auto_step", <<"step">>, "", out)
  /\ UNCHANGED dragging_wall

\* run() with algorithm selections, left clicks on the grid and the auto-step:
\* every frame whose timer has expired takes the auto-step, so the auto-step
\* is taken again and again for as long as it stays enabled.
NextRun ==
  \/ \E name \in ALGORITHMS : ClickAlgo(name)
  \/ \E c \in Cells : ClickCell(c)
  \/ RunAdvance

SpecRun == Init /\ [][NextRun]_vars /\ WF_vars(RunAdvance)

\* ------------------------------------------------------ the speed buttons
\* min(self.speed + 2, 60)
speed_up(v) == IF v + SpeedStep < MaxSpeed THEN v + SpeedStep ELSE MaxSpeed

\* self.speed - 2, without the floor.
speed_down_unfloored(v) == v - SpeedStep

\* max(self.speed - 2, 1)
speed_down(v) == IF v - SpeedStep > MinSpeed THEN v - SpeedStep ELSE MinSpeed

\* MOUSEBUTTONDOWN, button 1, on "Speed +"
ClickSpeedUp ==
  /\ Commit([Self EXCEPT !.speed = speed_up(speed)])
  /\ Handled("click_speed_up", <<>>, "", NoOut)
  /\ UNCHANGED dragging_wall

\* MOUSEBUTTONDOWN, button 1, on "Speed -"
ClickSpeedDown ==
  /\ Commit([Self EXCEPT !.speed = speed_down(speed)])
  /\ Handled("click_speed_down", <<>>, "", NoOut)
  /\ UNCHANGED dragging_wall

\* run() fed with clicks on the two speed buttons.
NextSpeed ==
  \/ ClickSpeedUp
  \/ ClickSpeedDown

SpecSpeed == Init /\ [][NextSpeed]_vars

\* ---------------------------------------------------------------- claims
\* A transition in which step() was called; one in which it went past its
\* guard and resumed the generator; one in which next() yielded a snapshot.
Stepped     == op'.calls = <<"step">>
Resumed     == Stepped /\ generator # NoGenerator /\ running
GotSnapshot == Resumed /\ ~op'.out.raised
Replanned   == replan_count' = replan_count + 1
\* self.generator is replaced by an instance that did not exist before, of
\* the algorithm that was running, with nothing explored.
FreshStrategy ==
  /\ generator' = NewGenerator(algo_name, created + 1)
  /\ created' = created + 1
  /\ generator'.inst # generator.inst
\* The positions of path p that are a Wall on grid g.
WallsOn(p, g) == {i \in 1 .. Len(p) : g[p[i]] = WALL}
Calls(m) == m \in Range(op'.calls)

\* C1: an advance() on a running session that obtains a snapshot with a
\* non-empty path, found=false and at least one path coordinate that is a Wall
\* on the live grid raises replan_count by exactly 1 (whatever the number of
\* blocked coordinates), sets message to the obstruction notice carrying the
\* new count, and replaces the generator by a fresh one of the same algorithm;
\* with an empty path or no Wall on it, replan_count and the generator
\* instance are the ones next() left.
C1_ReplanOnBlockedPath ==
  [][GotSnapshot =>
       LET snap == op'.out.state IN
         IF snap.path # <<>> /\ ~snap.found /\ WallsOn(snap.path, grid') # {}
         THEN /\ replan_count' = replan_count + 1
              /\ message' = Msg("blocked", "", replan_count + 1)
              /\ FreshStrategy
              /\ algo_name' = algo_name
         ELSE /\ replan_count' = replan_count
              /\ generator' = op'.out.gen
              /\ generator'.inst = generator.inst]_vars

\* C1 witness: a step has just re-planned on a path with two blocked
\* coordinates.
C1_Witness ==
  /\ op.calls = <<"step">> /\ ~op.out.raised
  /\ ~found /\ ~failed
  /\ Cardinality(WallsOn(path, grid)) >= 2
  /\ replan_count = 1
  /\ message = Msg("blocked", "", 1)
  /\ generator = NewGenerator(algo_name, created)

\* C2: every advance() that re-plans leaves running=true, also when the
\* snapshot that triggered it has failed=true.
C2_ReplanLeavesRunning ==
  [][GotSnapshot /\ Replanned => running']_vars

\* C3 (as claimed): when the session is running with a non-empty visible path
\* and found=false, and a coordinate of that path becomes a Wall, the advance()
\* that follows raises replan_count by 1 and installs a fresh Strategy.
C3_WallOnVisiblePathReplans ==
  [][Resumed /\ path # <<>> /\ ~found
       /\ (\E i \in 1 .. Len(path) : grid[path[i]] # WALL /\ grid'[path[i]] = WALL)
     => Replanned /\ FreshStrategy]_vars

\* C3 (amended): in that situation the advance() re-plans (replan_count + 1,
\* fresh Strategy with nothing explored) exactly when the snapshot it obtains
\* has found=false and a non-empty path with a Wall coordinate on it.
C3_WallOnReportedPathReplans ==
  [][Resumed /\ path # <<>> /\ ~found
       /\ (\E i \in 1 .. Len(path) : grid[path[i]] # WALL /\ grid'[path[i]] = WALL)
     => ((Replanned /\ FreshStrategy /\ generator'.explored = {})
           <=> (/\ ~op'.out.raised
                /\ op'.out.state.path # <<>>
                /\ ~op'.out.state.found
                /\ WallsOn(op'.out.state.path, grid') # {}))]_vars

\* C3 witness: the path visible before the step has a Wall on it, the step
\* re-planned, and the exploration shown comes from the discarded Strategy.
C3_Witness ==
  /\ op.calls = <<"step">> /\ ~op.out.raised
  /\ op.before # <<>> /\ WallsOn(op.before, grid) # {}
  /\ message.kind = "blocked"
  /\ generator.explored = {} /\ op.out.gen.explored # {}
  /\ running

\* C4: once found=true, nothing but reset() or start_algorithm() changes
\* path, found, replan_count or the generator, whatever walls are placed on
\* the confirmed path and however often step() is called.
C4_ConfirmedPathStable ==
  [][found /\ ~Calls("reset") /\ ~Calls("start_algorithm")
     => UNCHANGED <<path, found, replan_count, generator>>]_vars

\* C4 witness: step() was called with a Wall on the confirmed path.
C4_Witness ==
  /\ found /\ WallsOn(path, grid) # {}
  /\ op.calls = <<"step">>

\* C5: start_algorithm(name), from any state, leaves frontier, explored and
\* path empty, found and failed false, dynamic_walls empty, replan_count 0,
\* algo_name = name, a fresh generator of that name, running=true, and the
\* grid as it was.
C5_StartPostcondition ==
  [][op'.calls = <<"start_algorithm">>
     => /\ frontier' = {} /\ explored' = {} /\ path' = <<>>
        /\ ~found' /\ ~failed'
        /\ dynamic_walls' = {}
        /\ replan_count' = 0
        /\ algo_name' = op'.name
        /\ generator' = NewGenerator(op'.name, created + 1)
        /\ generator'.inst # generator.inst
        /\ running'
        /\ grid' = grid]_vars

\* C5 witness: a search was started over an earlier one that had re-planned
\* (the third instance constructed), on a grid with a Wall.
C5_Witness ==
  /\ op.calls = <<"start_algorithm">>
  /\ created = 3 /\ generator.inst = 3 /\ running
  /\ \E c \in Cells : grid[c] = WALL

\* C6: step() with no generator or with running=false changes nothing: not
\* the visible state, not the generator, not the grid.
C6_AdvanceNoOp ==
  [][Stepped /\ (generator = NoGenerator \/ ~running)
     => UNCHANGED <<frontier, explored, path, found, failed, message,
                    algo_name, replan_count, running, generator, grid,
                    dynamic_walls, active>>]_vars

\* C6 witness: step() was called with no generator.
C6_Witness ==
  /\ op.calls = <<"step">>
  /\ generator = NoGenerator

\* C7: when next() raises StopIteration, step() sets running=false and
\* leaves frontier, explored, path, found, failed, message and replan_count
\* alone; every step() on the exhausted generator after that is a no-op.
C7_ExhaustedStops ==
  [][/\ (Resumed /\ op'.out.raised
           => /\ ~running'
              /\ UNCHANGED <<frontier, explored, path, found, failed, message,
                             replan_count>>)
     /\ (Stepped /\ generator.status = "closed"
           => UNCHANGED <<frontier, explored, path, found, failed, message,
                          algo_name, replan_count, running, generator, grid>>)]_vars

\* C7 witness: step() was called again on a generator that had raised
\* StopIteration.
C7_Witness ==
  /\ op.calls = <<"step">> /\ op.out = NoOut
  /\ generator.status = "closed"
  /\ ~running

\* C8: after a step() that obtained a snapshot, frontier, explored, path,
\* found and failed are the snapshot's, message is the snapshot's unless the
\* step re-planned, and running is false exactly when the snapshot has found
\* or failed.
C8_SnapshotCopied ==
  [][GotSnapshot =>
       LET snap == op'.out.state IN
         /\ frontier' = snap.frontier
         /\ explored' = snap.explored
         /\ path' = snap.path
         /\ found' = snap.found
         /\ failed' = snap.failed
         /\ (Replanned \/ message' = snap.message)
         /\ running' = ~(snap.found \/ snap.failed)]_vars

\* C8 witness: a step has just copied a non-terminal snapshot with a
\* non-empty frontier, explored set and path.
C8_Witness ==
  /\ op.calls = <<"step">> /\ ~op.out.raised
  /\ running
  /\ frontier # {} /\ explored # {} /\ Len(path) >= 2
  /\ message = op.out.state.message

\* C9: step() never resumes a generator that has yielded a terminal
\* snapshot; so when StopIteration is met, the generator ended without ever
\* yielding one.
C9_NeverResumedAfterTerminal ==
  [][/\ (Resumed => generator.status # "terminal")
     /\ (Resumed /\ op'.out.raised => generator.status = "active")]_vars

\* C9 witness: step() was called on a generator that had yielded its terminal
\* snapshot, and did not resume it.
C9_Witness ==
  /\ op.calls = <<"step">> /\ op.out = NoOut
  /\ generator.status = "terminal"

\* C10: replan_count is never negative, and a transition leaves it as it
\* was, raises it by exactly 1 (only step() does), or sets it to 0 (only
\* reset() and start_algorithm() do).
C10_ReplanCountMoves ==
  [][/\ replan_count >= 0 /\ replan_count' >= 0
     /\ \/ replan_count' = replan_count
        \/ replan_count' = replan_count + 1 /\ Stepped
        \/ replan_count' = 0 /\ (Calls("reset") \/ Calls("start_algorithm"))]_vars

\* C10 witness: two re-plans in one run.
C10_Witness == replan_count = 2

\* C11: reset(), from any state, leaves a regenerated grid and a cleared
\* session (no generator, frontier, explored and path empty, found, failed and
\* running false, algo_name empty, dynamic_walls empty, replan_count 0); a
\* step() after reset() and before the next start_algorithm() changes nothing.
C11_ResetClears ==
  [][/\ (op'.calls = <<"reset">>
           => /\ grid' \in {GridLayout(W) : W \in SUBSET FreeCells}
              /\ generator' = NoGenerator
              /\ frontier' = {} /\ explored' = {} /\ path' = <<>>
              /\ ~found' /\ ~failed' /\ ~running'
              /\ algo_name' = ""
              /\ dynamic_walls' = {}
              /\ replan_count' = 0)
     /\ (Stepped /\ message = Msg("reset", "", 0)
           => UNCHANGED <<grid, generator, frontier, explored, path, found,
                          failed, running, message, algo_name, dynamic_walls,
                          replan_count, active>>)]_vars

\* C11 witness: step() was called after a reset() that ended an earlier
\* search, before any new start.
C11_Witness ==
  /\ op.calls = <<"step">>
  /\ message = Msg("reset", "", 0)
  /\ created >= 1
  /\ generator = NoGenerator /\ ~running /\ replan_count = 0

\* C12: dynamic_walls holds the coordinates that became a Wall since the
\* search began: after every step(), a coordinate that was not a Wall when the
\* search started and is a Wall now is in dynamic_walls.  During a run no wall
\* is ever removed, so a coordinate that is not a Wall before a step() was not
\* one at the start either: a Wall that appears during the step must be in
\* dynamic_walls after it.
C12_NewWallsRecorded ==
  [][GotSnapshot
     => \A c \in Cells :
          grid[c] # WALL /\ grid'[c] = WALL => c \in dynamic_walls']_vars

\* The session state and the grid.
session == <<grid, generator, frontier, explored, path, found, failed,
             running, message, algo_name, dynamic_walls, replan_count,
             active>>

\* C13: the Next Step button and the Space key call step() once when Step
\* Mode is on and do nothing when it is off; the auto-step calls step() only
\* with running true and Step Mode off; the Step Mode button flips step_mode
\* and neither calls step() nor changes the session.
C13_SteppingGatedByStepMode ==
  [][/\ (op'.event \in {"key_space", "click_next"}
           => IF step_mode
              THEN op'.calls = <<"step">> /\ step_mode'
              ELSE op'.calls = <<>> /\ ~step_mode' /\ UNCHANGED session)
     /\ (op'.event = "auto_step"
           => running /\ ~step_mode /\ op'.calls = <<"step">>)
     /\ (op'.event = "click_step_mode"
           => /\ op'.calls = <<>>
              /\ step_mode' = ~step_mode
              /\ UNCHANGED session)]_vars

\* C13 witness: in Step Mode, the Next Step button has advanced a running
\* search by one snapshot.
C13_Witness ==
  /\ op.event = "click_next" /\ op.calls = <<"step">>
  /\ step_mode /\ running
  /\ ~op.out.raised /\ explored # {}

\* C14: a drag-paint event at a pixel outside every cell changes nothing, one
\* on Start or Target changes nothing, the only cell a drag-paint event
\* changes is the free cell under the pointer and it becomes a Wall (which it
\* does when dragging with no run in progress), and Start and Target keep
\* their values.
C14_DragPaintInBounds ==
  [][op'.event = "mouse_motion"
       => LET hit == {c \in Cells : InRect(c, op'.pos)}
          IN  /\ (hit = {} => grid' = grid)
              /\ (hit \cap {start, target} # {} => grid' = grid)
              /\ \A c \in Cells :
                   grid'[c] # grid[c]
                     => c \in hit /\ c \in FreeCells /\ grid'[c] = WALL
              /\ \A c \in hit \cap FreeCells :
                   dragging_wall /\ ~running => grid'[c] = WALL
              /\ grid'[start] = START /\ grid'[target] = TARGET]_vars

\* C14 witness: with the right button held and no run in progress, the
\* pointer has moved over the last pixel column of a free cell, now a Wall.
C14_Witness ==
  /\ op.event = "mouse_motion"
  /\ dragging_wall /\ ~running
  /\ \E c \in FreeCells :
       /\ InRect(c, op.pos)
       /\ op.pos[1] = MARGIN_LEFT + (c[2] + 1) * CELL_SIZE - 1
       /\ grid[c] = WALL

\* C15: with Strategies that reach a terminal snapshot, report paths through
\* cells they expanded (none a Wall when the instance was created) and walls
\* that are only added during a run, a running session driven by repeated
\* step() eventually stops with found or failed set, and replan_count never
\* exceeds the number of grid cells.
C15_SessionTerminates ==
  /\ [](replan_count <= Cardinality(Cells))
  /\ (running ~> (~running /\ (found \/ failed)))

\* C15 witness: a run that was re-planned once per free cell has ended in
\* failure.
C15_Witness ==
  /\ op.event = "auto_step"
  /\ ~running /\ failed
  /\ replan_count = Cardinality(FreeCells)

\* C16: in every reachable state, running implies that self.generator holds
\* a Strategy, that algo_name is a key of ALGORITHMS, and that neither found
\* nor failed is set.
C16_RunningImplies ==
  running => /\ generator # NoGenerator
             /\ algo_name \in ALGORITHMS
             /\ ~found /\ ~failed

\* C16 witness: a run still in progress after a re-plan, on its second
\* Strategy instance at least.
C16_Witness ==
  /\ running
  /\ replan_count >= 1
  /\ generator.inst >= 2
  /\ op.calls = <<"step">>

\* C17: while running (in Step Mode too) a left click on a cell and a pointer
\* motion over a cell, dragging or not, leave the grid as it is, and a cell
\* becomes a Wall during a run only in a step() that resumes the Strategy or
\* in a reset(); with running false a left click on a cell is forwarded to
\* Grid.toggle_wall.
C17_NoWallEditWhileRunning ==
  [][/\ (running /\ op'.event \in {"click_cell", "mouse_motion"}
           => grid' = grid)
     /\ (running /\ (\E c \in Cells : grid[c] # WALL /\ grid'[c] = WALL)
           => Resumed \/ Calls("reset"))
     /\ (~running /\ op'.event = "click_cell"
           => \E c \in Cells : grid' = toggle_wall(grid, c))]_vars

\* C17 witness: a left click on a cell was handled during a run paused in
\* Step Mode, after the run had expanded at least one coordinate.
C17_Witness ==
  /\ op.event = "click_cell"
  /\ running /\ step_mode
  /\ explored # {}

\* C18: a click on the button of an algorithm, from any state (idle, running,
\* found, failed), calls reset() and then start_algorithm(name): the grid is
\* a freshly generated layout, the Strategy is a new instance of the named
\* algorithm (the one of a run in progress is dropped), the search state is
\* cleared, and running is true, algo_name is the name and replan_count is 0.
C18_SelectResetsThenStarts ==
  [][op'.event = "click_algo"
       => /\ op'.calls = <<"reset", "start_algorithm">>
          /\ op'.name \in ALGORITHMS
          /\ grid' \in {GridLayout(W) : W \in SUBSET FreeCells}
          /\ generator' = NewGenerator(op'.name, created + 1)
          /\ generator'.inst # generator.inst
          /\ running' /\ algo_name' = op'.name /\ replan_count' = 0
          /\ active' = {op'.name}
          /\ frontier' = {} /\ explored' = {} /\ path' = <<>>
          /\ ~found' /\ ~failed' /\ dynamic_walls' = {}
          /\ message' = Msg("running", op'.name, 0)]_vars

\* C18 witness: an algorithm button was clicked when an earlier Strategy
\* instance existed, and the new run is on.
C18_Witness ==
  /\ op.event = "click_algo"
  /\ created >= 2
  /\ generator.inst = created
  /\ running /\ replan_count = 0 /\ algo_name = op.name

\* C19: after any sequence of Speed+ and Speed- clicks from the initial speed
\* 8, speed is an integer between 1 and 60 (so 1/speed is defined); Speed+
\* adds 2 and stops at 60, Speed- subtracts 2 and stops at 1.
C19_SpeedInRange ==
  /\ speed = 8
  /\ [](speed \in 1 .. 60)
  /\ [][/\ (op'.event = "click_speed_up"
              => speed' = IF speed + 2 > 60 THEN 60 ELSE speed + 2)
        /\ (op'.event = "click_speed_down"
              => speed' = IF speed - 2 < 1 THEN 1 ELSE speed - 2)]_vars

\* C19 witness: a click on Speed- has left the speed at the floor.
C19_Witness ==
  /\ op.event = "click_speed_down"
  /\ speed = 1

\* C20: in every reachable state some algorithm button is active exactly when
\* the session is running, and then the only active button is the one named
\* algo_name; so no button is active once step() has cleared running (on a
\* terminal snapshot or on an exhausted Strategy) or after reset().
C20_ActiveIffRunning ==
  /\ (active # {}) <=> running
  /\ running => active = {algo_name}

====
